---- MODULE Spec2Model ----
(***************************************************************************)
(* Model of the drawbridge front door:                                     *)
(*   - crates/repo/src/lib.rs: Namespace parsing and the request           *)
(*     dispatcher `app()`;                                                 *)
(*   - crates/type/src/digest/reader.rs, algorithms.rs: the hashing        *)
(*     Reader and the one-shot digest operations.                          *)
(* Strings are sequences of one-character strings.                         *)
(***************************************************************************)
EXTENDS Integers, Sequences, FiniteSets, TLC

(***************************************************************************)
(* Bounds                                                                  *)
(***************************************************************************)
\* longest string handed to Namespace::from_str in SpecParse
MaxLen == 5

\* longest string of the characters of NameAlphabet handed to the parsers
MaxNameLen == 3

\* longest text put before the tail of a request path in SpecRoute
MaxNsLen == 3

\* number of requests the dispatcher handles in SpecRepo
MaxRequests == 2

\* longest byte sequence held by the stream a Reader wraps
MaxData == 3

\* longest buffer a caller hands to a read call in SpecReader
MaxBuf == 2

\* number of read calls on one Reader in SpecReader
MaxReads == 3

\* length of the buffer of the copy loops, standing for their 8 KiB buffer
CopyBufLen == 2

(***************************************************************************)
(* Characters and strings                                                  *)
(***************************************************************************)
Digits == {"0", "1", "2", "3", "4", "5", "6", "7", "8", "9"}

Lower == {"a", "b", "c", "d", "e", "f", "g", "h", "i", "j", "k", "l", "m",
          "n", "o", "p", "q", "r", "s", "t", "u", "v", "w", "x", "y", "z"}

Upper == {"A", "B", "C", "D", "E", "F", "G", "H", "I", "J", "K", "L", "M",
          "N", "O", "P", "Q", "R", "S", "T", "U", "V", "W", "X", "Y", "Z"}

\* the characters the inputs are drawn from: letters, a digit, the hyphen,
\* the separator, the marker's underscore and a character that is never valid
Alphabet == {"a", "Z", "0", "-", "/", "_", "%"}

\* a character outside ASCII, written by its code point
NonAscii == "U+044F"

\* more characters that are never valid: whitespace, a dot, a letter
\* outside ASCII
NameAlphabet == {"a", "-", "/", " ", ".", "%", NonAscii}

\* the characters the request paths of SpecRoute are drawn from
PathAlphabet == {"a", "-", "/", "_", "%"}

StringsOver(chars, n) == UNION {[1..k -> chars] : k \in 0..n}

StringsUpTo(n) == StringsOver(Alphabet, n)

\* index of the first occurrence of pat in s at or after position i, 0 if none
RECURSIVE FindFrom(_, _, _)
FindFrom(s, pat, i) ==
    IF i + Len(pat) - 1 > Len(s) THEN 0
    ELSE IF SubSeq(s, i, i + Len(pat) - 1) = pat THEN i
    ELSE FindFrom(s, pat, i + 1)

\* str::split_once: the text before and after the first occurrence of pat
SplitOnce(s, pat) ==
    LET i == FindFrom(s, pat, 1) IN
    IF i = 0 THEN [found |-> FALSE, before |-> s, after |-> <<>>]
    ELSE [found |-> TRUE,
          before |-> SubSeq(s, 1, i - 1),
          after |-> SubSeq(s, i + Len(pat), Len(s))]

\* str::split: the tokens between the occurrences of sep, at least one token
RECURSIVE Split(_, _)
Split(s, sep) ==
    LET p == SplitOnce(s, <<sep>>) IN
    IF ~p.found THEN <<s>>
    ELSE <<p.before>> \o Split(p.after, sep)

\* str::strip_prefix for a one-character prefix
StripPrefix(s, c) ==
    IF Len(s) > 0 /\ s[1] = c THEN [some |-> TRUE, rest |-> Tail(s)]
    ELSE [some |-> FALSE, rest |-> s]

(***************************************************************************)
(* Namespace (crates/repo/src/lib.rs)                                      *)
(***************************************************************************)
NoNamespace == [owner |-> <<>>, groups |-> <<>>, name |-> <<>>]

Ok(ns) == [ok |-> TRUE, err |-> "", ns |-> ns]

Err(e) == [ok |-> FALSE, err |-> e, ns |-> NoNamespace]

\* the character class of the closure in `valid`
ValidChar(c) == c \in Digits \cup Lower \cup Upper \cup {"-"}

valid(part) == Len(part) > 0 /\ \A i \in 1..Len(part) : ValidChar(part[i])

\* from_str that keeps the owner and the name only
from_str_without_groups(s) ==
    LET tokens == Split(s, "/") IN
    IF Len(tokens) < 2 THEN Err("Repository name must be specified")
    ELSE
      LET owner == Head(tokens)
          name == tokens[Len(tokens)]
          groups == SubSeq(tokens, 2, Len(tokens) - 1)
      IN
      IF ~valid(owner) \/ ~valid(name)
         \/ ~(\A i \in 1..Len(groups) : valid(groups[i]))
      THEN Err("Invalid namespace")
      ELSE Ok([owner |-> owner, groups |-> <<>>, name |-> name])

\* from_str without the check of the group tokens
from_str_unchecked_groups(s) ==
    LET tokens == Split(s, "/") IN
    IF Len(tokens) < 2 THEN Err("Repository name must be specified")
    ELSE
      LET owner == Head(tokens)
          name == tokens[Len(tokens)]
          groups == SubSeq(tokens, 2, Len(tokens) - 1)
      IN
      IF ~valid(owner) \/ ~valid(name) THEN Err("Invalid namespace")
      ELSE Ok([owner |-> owner, groups |-> groups, name |-> name])

from_str(s) ==
    LET tokens == Split(s, "/") IN
    IF tokens = <<>> THEN Err("Repository owner must be specified")
    ELSE
      LET owner == Head(tokens)
          namespace == Tail(tokens)
      IN
      IF namespace = <<>> THEN Err("Repository name must be specified")
      ELSE
        LET name == namespace[Len(namespace)]
            groups == SubSeq(namespace, 1, Len(namespace) - 1)
        IN
        IF ~valid(owner) \/ ~valid(name)
           \/ ~(\A i \in 1..Len(groups) : valid(groups[i]))
        THEN Err("Invalid namespace")
        ELSE Ok([owner |-> owner, groups |-> groups, name |-> name])

(***************************************************************************)
(* Name (crates/type/src/repository/name.rs)                               *)
(***************************************************************************)
NoName == <<>>

NameOk(s) == [ok |-> TRUE, err |-> "", name |-> s]

NameErr(e) == [ok |-> FALSE, err |-> e, name |-> NoName]

\* validate without the check for the empty string
Name_validate_nonempty_unchecked(s) ==
    IF \E i \in 1..Len(s) : ~ValidChar(s[i])
    THEN "invalid characters in repository name"
    ELSE ""

\* Name::validate: the error, "" for Ok(())
Name_validate(s) ==
    IF Len(s) = 0 THEN "empty repository name"
    ELSE IF \E i \in 1..Len(s) : ~ValidChar(s[i])
    THEN "invalid characters in repository name"
    ELSE ""

\* Name::from_str
Name_from_str(s) ==
    LET e == Name_validate(s) IN
    IF e = "" THEN NameOk(s) ELSE NameErr(e)

\* Name::try_from(String)
Name_try_from(s) ==
    LET e == Name_validate(s) IN
    IF e = "" THEN NameOk(s) ELSE NameErr(e)

(***************************************************************************)
(* Dispatcher `app()` (crates/repo/src/lib.rs)                             *)
(***************************************************************************)
Marker == <<"/", "_">>

\* strip_prefix('/') and split_once("/_").unwrap_or((path, "")) of the path
PathSplit(p) ==
    LET s == StripPrefix(p, "/").rest
        sp == SplitOnce(s, Marker)
    IN
    IF sp.found THEN [namespace |-> sp.before, rest |-> sp.after]
    ELSE [namespace |-> s, rest |-> <<>>]

\* from_request that leaves the path of the request as it found it
from_request_keep_path(p) ==
    LET sp == PathSplit(p)
        res == from_str(sp.namespace)
    IN
    IF ~res.ok
    THEN [ok |-> FALSE, status |-> 400, err |-> res.err, ns |-> NoNamespace,
          uri |-> p]
    ELSE [ok |-> TRUE, status |-> 0, err |-> "", ns |-> res.ns, uri |-> p]

\* Namespace::from_request on a request with the path p: the Namespace or
\* the rejection, and the path of the request afterwards
from_request(p) ==
    LET sp == PathSplit(p)
        res == from_str(sp.namespace)
    IN
    IF ~res.ok
    THEN [ok |-> FALSE, status |-> 400, err |-> res.err, ns |-> NoNamespace,
          uri |-> p]
    ELSE [ok |-> TRUE, status |-> 0, err |-> "", ns |-> res.ns,
          uri |-> Marker \o sp.rest]

TreeToken == <<"t", "r", "e", "e">>

TagToken == <<"t", "a", "g">>

NOT_FOUND == 404

BAD_REQUEST == 400

\* the status of the response of a store service; the services are external
SERVICE_OK == 200

EmptyMap == <<>>

\* an entry whose default value is one store instance shared by all keys
EntryOrSharedDefault(m, key, fresh) ==
    IF key \in DOMAIN m
    THEN [map |-> m, handle |-> m[key], created |-> FALSE]
    ELSE [map |-> (key :> 1) @@ m, handle |-> 1, created |-> TRUE]

\* HashMap::entry(key).or_default(): the value of the key, inserted as a
\* fresh store instance when the key is absent
EntryOrDefault(m, key, fresh) ==
    IF key \in DOMAIN m
    THEN [map |-> m, handle |-> m[key], created |-> FALSE]
    ELSE [map |-> (key :> fresh) @@ m, handle |-> fresh, created |-> TRUE]

no_route == [status |-> NOT_FOUND, reason |-> "Route not found"]

Rejected(rej, u, trs, tgs) ==
    [forwarded |-> FALSE, status |-> rej.status, reason |-> rej.reason,
     uri |-> u, svc |-> "none", ns |-> NoNamespace, store |-> 0,
     created |-> FALSE, trees |-> trs, tags |-> tgs]

\* a forward that puts the entry into both maps
ForwardedBothMaps(service, namespace, u, e, trs, tgs) ==
    [forwarded |-> TRUE, status |-> 0, reason |-> "",
     uri |-> u, svc |-> service, ns |-> namespace, store |-> e.handle,
     created |-> e.created,
     trees |-> (namespace :> e.handle) @@ trs,
     tags |-> (namespace :> e.handle) @@ tgs]

Forwarded(service, namespace, u, e, trs, tgs) ==
    [forwarded |-> TRUE, status |-> 0, reason |-> "",
     uri |-> u, svc |-> service, ns |-> namespace, store |-> e.handle,
     created |-> e.created, trees |-> trs, tags |-> tgs]

\* the path without its leading slash, taken as a whole for the namespace
\* when it has no marker (as `unwrap_or((path, ""))` would)
MarkerSplitOrWhole(p) ==
    LET sp == SplitOnce(StripPrefix(p, "/").rest, Marker) IN
    IF sp.found THEN sp ELSE [sp EXCEPT !.found = TRUE]

\* strip_prefix('/') and split_once("/_") of the request path
MarkerSplit(p) == SplitOnce(StripPrefix(p, "/").rest, Marker)

\* the component split at the last slash (as `rsplit_once('/')` would)
ComponentSplitLast(after) ==
    IF \E i \in 1..Len(after) : after[i] = "/"
    THEN LET i == CHOOSE k \in 1..Len(after) :
                      /\ after[k] = "/"
                      /\ \A j \in (k + 1)..Len(after) : after[j] # "/"
         IN [comp |-> SubSeq(after, 1, i - 1),
             rest |-> SubSeq(after, i + 1, Len(after))]
    ELSE [comp |-> after, rest |-> <<>>]

\* split_once('/').unwrap_or((&path, "")) of the text after the marker
ComponentSplit(after) ==
    LET cs == SplitOnce(after, <<"/">>) IN
    IF cs.found THEN [comp |-> cs.before, rest |-> cs.after]
    ELSE [comp |-> after, rest |-> <<>>]

\* a match that takes every token starting with `tree` or `tag`
MatchComponentPrefix(comp) ==
    IF Len(comp) >= Len(TreeToken) /\ SubSeq(comp, 1, Len(TreeToken)) = TreeToken
    THEN "tree"
    ELSE IF Len(comp) >= Len(TagToken) /\ SubSeq(comp, 1, Len(TagToken)) = TagToken
    THEN "tag"
    ELSE "none"

\* `match comp`: the service the component token names, if any
MatchComponent(comp) ==
    CASE comp = TreeToken -> "tree"
      [] comp = TagToken -> "tag"
      [] OTHER -> "none"

\* the body of the fallback handler up to the call of the store service,
\* run on the request path p with the handler's maps trs and tgs
Dispatch(p, trs, tgs, fresh) ==
    LET sp == MarkerSplit(p) IN
    IF ~sp.found THEN Rejected(no_route, p, trs, tgs)
    ELSE
      LET res == from_str(sp.before) IN
      IF ~res.ok
      THEN Rejected([status |-> BAD_REQUEST, reason |-> res.err], p, trs, tgs)
      ELSE
        LET cs == ComponentSplit(sp.after)
            service == MatchComponent(cs.comp)
            u == Marker \o cs.rest
        IN
        CASE service = "tree" ->
               LET e == EntryOrDefault(trs, res.ns, fresh) IN
               Forwarded("tree", res.ns, u, e, e.map, tgs)
          [] service = "tag" ->
               LET e == EntryOrDefault(tgs, res.ns, fresh) IN
               Forwarded("tag", res.ns, u, e, trs, e.map)
          [] OTHER -> Rejected(no_route, u, trs, tgs)

(***************************************************************************)
(* Digests (crates/type/src/digest)                                        *)
(***************************************************************************)
\* the byte values the streams are made of
Byte == {0, 1}

BytesUpTo(n) == UNION {[1..k -> Byte] : k \in 0..n}

Min(a, b) == IF a < b THEN a ELSE b

\* the Algorithm enumeration, in its order
AlgorithmOrder == <<"sha-224", "sha-256", "sha-384", "sha-512">>

Algorithm == {AlgorithmOrder[i] : i \in 1..Len(AlgorithmOrder)}

\* digest length of an algorithm, in bytes
OutputSize(a) ==
    CASE a = "sha-224" -> 28
      [] a = "sha-256" -> 32
      [] a = "sha-384" -> 48
      [] a = "sha-512" -> 64

\* Algorithm::hasher: a hasher that has absorbed nothing
hasher(a) == <<>>

\* DynDigest::update: the hasher absorbs data after what it has absorbed
hasher_update(h, data) == h \o data

\* a stand-in for the hash functions: a value of the algorithm's size that
\* depends on every byte absorbed and on their order
RECURSIVE Compress(_, _)
Compress(v, data) ==
    IF data = <<>> THEN v
    ELSE Compress(3 * v + Head(data) + 1, Tail(data))

\* DynDigest::finalize
finalize(a, h) == [size |-> OutputSize(a), value |-> Compress(0, h)]

\* Algorithms::default
DefaultAlgorithms == {"sha-224", "sha-256", "sha-384", "sha-512"}

\* iteration of a BTreeSet<Algorithm>: its members in the Algorithm order
RECURSIVE IterFrom(_, _)
IterFrom(set, i) ==
    IF i > Len(AlgorithmOrder) THEN <<>>
    ELSE IF AlgorithmOrder[i] \in set
         THEN <<AlgorithmOrder[i]>> \o IterFrom(set, i + 1)
         ELSE IterFrom(set, i + 1)

Iter(set) == IterFrom(set, 1)

\* a Reader without a hasher for the last algorithm handed in
Reader_new_without_last(algs) ==
    [i \in 1..(Len(algs) - 1) |-> [alg |-> algs[i], state |-> hasher(algs[i])]]

\* Reader::new: one fresh hasher for each algorithm handed in
Reader_new(algs) ==
    [i \in 1..Len(algs) |-> [alg |-> algs[i], state |-> hasher(algs[i])]]

\* Algorithms::reader
Algorithms_reader(set) == Reader_new(Iter(set))

\* an update that stops after the first hasher
update_first_only(ds, buf) ==
    [i \in 1..Len(ds) |->
        IF i = 1 THEN [ds[i] EXCEPT !.state = hasher_update(ds[i].state, buf)]
        ELSE ds[i]]

\* Reader::update
update(ds, buf) ==
    [i \in 1..Len(ds) |-> [ds[i] EXCEPT !.state = hasher_update(ds[i].state, buf)]]

\* ContentDigest::default
EmptyContentDigest == <<>>

\* ContentDigest::insert
ContentDigest_insert(set, a, bytes) == (a :> bytes) @@ set

RECURSIVE InsertAll(_, _, _)
InsertAll(set, ds, i) ==
    IF i > Len(ds) THEN set
    ELSE InsertAll(ContentDigest_insert(set, ds[i].alg,
                                        finalize(ds[i].alg, ds[i].state)),
                   ds, i + 1)

\* digests() that finalizes the hashers themselves and leaves them reset
digests_finalize_reset(ds) ==
    [set |-> InsertAll(EmptyContentDigest, ds, 1),
     digests |-> [i \in 1..Len(ds) |-> [ds[i] EXCEPT !.state = hasher(ds[i].alg)]]]

\* Reader::digests: the set of the finalized clones of the hashers, and the
\* hashers after the call
Reader_digests(ds) ==
    [set |-> InsertAll(EmptyContentDigest, ds, 1), digests |-> ds]

Modes == {"sync", "async"}

\* the kinds of the I/O error of a stream
ErrorKinds == {"Interrupted", "Other"}

\* what a read of the wrapped stream of m can produce for a buffer of len
\* bytes: any number of its next bytes, an error, or (async) pending
InnerOutcomes(m, stream, len) ==
    {[res |-> "ok", n |-> k, err |-> ""] :
        k \in 0..Min(len, Len(stream.data) - stream.pos)}
    \cup {[res |-> "err", n |-> 0, err |-> e] : e \in ErrorKinds}
    \cup (IF m = "async" THEN {[res |-> "pending", n |-> 0, err |-> ""]} ELSE {})

\* the wrapped stream after the outcome o
InnerAfter(stream, o) == [stream EXCEPT !.pos = stream.pos + o.n]

\* the caller's buffer after the outcome o: the stream has written the
\* first o.n bytes
BufAfter(stream, buf, o) ==
    SubSeq(stream.data, stream.pos + 1, stream.pos + o.n)
        \o SubSeq(buf, o.n + 1, Len(buf))

\* a read that hashes the whole buffer
Reader_read_whole_buf(ds, buf, o) ==
    IF o.res = "ok" THEN update(ds, buf) ELSE ds

\* Reader::read: the hashers after the inner read had the outcome o and
\* left the buffer as buf
Reader_read(ds, buf, o) ==
    IF o.res = "ok" THEN update(ds, SubSeq(buf, 1, o.n)) ELSE ds

\* a poll_read that hashes the whole buffer
Reader_poll_read_whole_buf(ds, buf, o) ==
    IF o.res = "ok" THEN update(ds, buf) ELSE ds

\* Reader::poll_read: map_ok runs the update for Ready(Ok(n)) only
Reader_poll_read(ds, buf, o) ==
    IF o.res = "ok" THEN update(ds, SubSeq(buf, 1, o.n)) ELSE ds

(***************************************************************************)
(* State                                                                   *)
(***************************************************************************)
VARIABLES
    algorithms, \* the Algorithms set
    kind,       \* whether the Reader wraps a sync or an async stream
    inner,      \* Reader.reader: the wrapped stream, its bytes and position
    digests,    \* Reader.digests: the algorithms with their hashers
    out,        \* the bytes the read calls have returned to the caller
    sizes,      \* the byte counts of the successful read calls
    last,       \* the last call on the Reader and its result
    snap,       \* the result of the last call of digests()
    copy,       \* the state of Algorithms::read or read_sync
    results,    \* what Algorithms::read and read_sync have returned
    input,      \* SpecParse: the string handed to the parser
    parsed,     \* SpecParse: the parser's result, once it has run
    named,      \* SpecParse: the result of parsing the string as a Name
    tags,       \* the map `tags` captured by the handler closure
    trees,      \* the map `trees` captured by the handler closure
    nextStore,  \* number of store instances created so far
    pc,         \* per request: idle, called, forwarded, done, rejected
    path,       \* per request: the path of the request as received
    uri,        \* per request: the path of req.uri, rewritten by the handler
    hTags,      \* per request: `tags` as owned by the handler handling it
    hTrees,     \* per request: `trees` as owned by the handler handling it
    fwd,        \* per request: service, Namespace and store it is forwarded with
    prior,      \* per request: the requests answered before it was received
    extracted,  \* per request: the result of Namespace::from_request
    resp        \* per request: status and reason of the response

parseVars == <<input, parsed, named>>

repoVars ==
    <<tags, trees, nextStore, pc, path, uri, hTags, hTrees, fwd, prior,
      extracted, resp>>

digestVars ==
    <<algorithms, kind, inner, digests, out, sizes, last, snap, copy, results>>

vars == <<input, parsed, named, tags, trees, nextStore, pc, path, uri, hTags, hTrees,
          fwd, prior, extracted, resp, algorithms, kind, inner, digests, out, sizes, last,
          snap, copy, results>>

NotParsed == [done |-> FALSE, res |-> Err("")]

\* no string is being parsed
NotNamed == [done |-> FALSE, via |-> "none", res |-> NameErr("")]

NoInput ==
    /\ input = <<>>
    /\ parsed = NotParsed
    /\ named = NotNamed

Requests == 1..MaxRequests

NoForward == [svc |-> "none", ns |-> NoNamespace, store |-> 0, created |-> FALSE]

NoResponse == [status |-> 0, reason |-> ""]

NotExtracted ==
    [done |-> FALSE, ok |-> FALSE, status |-> 0, err |-> "", ns |-> NoNamespace]

(***************************************************************************)
(* Request handling                                                        *)
(***************************************************************************)
InitRepoVars ==
    /\ tags = EmptyMap
    /\ trees = EmptyMap
    /\ nextStore = 0
    /\ pc = [r \in Requests |-> "idle"]
    /\ path = [r \in Requests |-> <<>>]
    /\ uri = [r \in Requests |-> <<>>]
    /\ hTags = [r \in Requests |-> EmptyMap]
    /\ hTrees = [r \in Requests |-> EmptyMap]
    /\ fwd = [r \in Requests |-> NoForward]
    /\ prior = [r \in Requests |-> {}]
    /\ extracted = [r \in Requests |-> NotExtracted]
    /\ resp = [r \in Requests |-> NoResponse]

\* the service made by into_service is called with a request: it clones the
\* handler, a FnOnce closure that owns `tags` and `trees`, and calls the clone
Call(r, p) ==
    /\ pc[r] = "idle"
    /\ pc' = [pc EXCEPT ![r] = "called"]
    /\ path' = [path EXCEPT ![r] = p]
    /\ uri' = [uri EXCEPT ![r] = p]
    /\ hTags' = [hTags EXCEPT ![r] = tags]
    /\ hTrees' = [hTrees EXCEPT ![r] = trees]
    /\ prior' = [prior EXCEPT ![r] = {q \in Requests : pc[q] \in {"done", "rejected"}}]
    /\ UNCHANGED <<tags, trees, nextStore, fwd, extracted, resp, parseVars,
                   digestVars>>

\* the handler's future runs up to the call of the store service
Route(r) ==
    /\ pc[r] = "called"
    /\ LET d == Dispatch(uri[r], hTrees[r], hTags[r], nextStore + 1) IN
       /\ uri' = [uri EXCEPT ![r] = d.uri]
       /\ hTrees' = [hTrees EXCEPT ![r] = d.trees]
       /\ hTags' = [hTags EXCEPT ![r] = d.tags]
       /\ nextStore' = IF d.created THEN nextStore + 1 ELSE nextStore
       /\ fwd' = [fwd EXCEPT ![r] = [svc |-> d.svc, ns |-> d.ns,
                                     store |-> d.store, created |-> d.created]]
       /\ resp' = [resp EXCEPT ![r] = [status |-> d.status, reason |-> d.reason]]
       /\ pc' = [pc EXCEPT ![r] = IF d.forwarded THEN "forwarded" ELSE "rejected"]
    /\ UNCHANGED <<tags, trees, path, prior, extracted, parseVars, digestVars>>

\* the store service answers; the handler's future ends and drops its maps
Serve(r) ==
    /\ pc[r] = "forwarded"
    /\ pc' = [pc EXCEPT ![r] = "done"]
    /\ resp' = [resp EXCEPT ![r] = [status |-> SERVICE_OK, reason |-> ""]]
    /\ hTags' = [hTags EXCEPT ![r] = EmptyMap]
    /\ hTrees' = [hTrees EXCEPT ![r] = EmptyMap]
    /\ UNCHANGED <<tags, trees, nextStore, path, uri, fwd, prior, extracted,
                   parseVars, digestVars>>

\* a handler takes the Namespace of the request with the extractor
Extract(r) ==
    /\ pc[r] = "called"
    /\ LET x == from_request(uri[r]) IN
       /\ uri' = [uri EXCEPT ![r] = x.uri]
       /\ extracted' = [extracted EXCEPT ![r] =
             [done |-> TRUE, ok |-> x.ok, status |-> x.status, err |-> x.err,
              ns |-> x.ns]]
    /\ pc' = [pc EXCEPT ![r] = "extracted"]
    /\ UNCHANGED <<tags, trees, nextStore, path, hTags, hTrees, fwd, prior,
                   resp, parseVars, digestVars>>

(***************************************************************************)
(* The hashing Reader and the one-shot digest operations                   *)
(***************************************************************************)
NoCall == [op |-> "none", res |-> "none", n |-> 0, err |-> "", buf |-> <<>>]

NoSnap == [taken |-> FALSE, set |-> EmptyContentDigest]

NoResult == [res |-> "none", n |-> 0, set |-> EmptyContentDigest, err |-> ""]

NoCopy == [pc |-> "idle", n |-> 0]

\* the algorithm sets of the runs: one algorithm, two, and the default four
AlgorithmSets == {{"sha-256"}, {"sha-224", "sha-512"}, DefaultAlgorithms}

\* a Reader made by Algorithms::reader over a stream holding data
NewReader(k, data) ==
    /\ kind = k
    /\ inner = [data |-> data, pos |-> 0]
    /\ digests = Algorithms_reader(algorithms)
    /\ out = <<>>
    /\ sizes = <<>>
    /\ last = NoCall
    /\ snap = NoSnap

\* no digest is being computed
NoReader ==
    /\ algorithms = DefaultAlgorithms
    /\ NewReader("sync", <<>>)
    /\ copy = NoCopy
    /\ results = [m \in Modes |-> NoResult]

InitReaderVars ==
    /\ algorithms \in AlgorithmSets
    /\ \E k \in Modes, data \in BytesUpTo(MaxData) : NewReader(k, data)
    /\ copy = NoCopy
    /\ results = [m \in Modes |-> NoResult]

\* the effect of one read call with the buffer buf and the inner outcome o
ReadCall(op, ds, buf, o) ==
    LET b == IF o.res = "ok" THEN BufAfter(inner, buf, o) ELSE buf IN
    /\ inner' = InnerAfter(inner, o)
    /\ digests' = ds
    /\ out' = IF o.res = "ok" THEN out \o SubSeq(b, 1, o.n) ELSE out
    /\ sizes' = IF o.res = "ok" THEN Append(sizes, o.n) ELSE sizes
    /\ last' = [op |-> op, res |-> o.res, n |-> o.n, err |-> o.err, buf |-> b]

\* io::Read::read on the Reader, with a zeroed buffer of len bytes
Read(len) ==
    /\ kind = "sync"
    /\ Len(sizes) < MaxReads
    /\ \E o \in InnerOutcomes("sync", inner, len) :
         LET buf == [i \in 1..len |-> 0]
             b == IF o.res = "ok" THEN BufAfter(inner, buf, o) ELSE buf
         IN ReadCall("read", Reader_read(digests, b, o), buf, o)
    /\ UNCHANGED <<algorithms, kind, snap, copy, results, parseVars, repoVars>>

\* AsyncRead::poll_read on the Reader, with a zeroed buffer of len bytes
PollRead(len) ==
    /\ kind = "async"
    /\ Len(sizes) < MaxReads
    /\ \E o \in InnerOutcomes("async", inner, len) :
         LET buf == [i \in 1..len |-> 0]
             b == IF o.res = "ok" THEN BufAfter(inner, buf, o) ELSE buf
         IN ReadCall("poll_read", Reader_poll_read(digests, b, o), buf, o)
    /\ UNCHANGED <<algorithms, kind, snap, copy, results, parseVars, repoVars>>

\* Reader::digests
Digests ==
    /\ LET d == Reader_digests(digests) IN
       /\ snap' = [taken |-> TRUE, set |-> d.set]
       /\ digests' = d.digests
    /\ last' = [op |-> "digests", res |-> "ok", n |-> 0, err |-> "", buf |-> <<>>]
    /\ UNCHANGED <<algorithms, kind, inner, out, sizes, copy, results,
                   parseVars, repoVars>>

NextReader ==
    \/ \E len \in 0..MaxBuf : Read(len)
    \/ \E len \in 0..MaxBuf : PollRead(len)
    \/ Digests

InitReader == NoInput /\ InitRepoVars /\ InitReaderVars

SpecReader == InitReader /\ [][NextReader]_vars

(***************************************************************************)
(* SpecCopy: Algorithms::read and Algorithms::read_sync over the same bytes *)
(***************************************************************************)
InitCopyVars ==
    /\ algorithms \in AlgorithmSets
    /\ \E data \in BytesUpTo(MaxData) : NewReader("sync", data)
    /\ copy = NoCopy
    /\ results = [m \in Modes |-> NoResult]

\* Algorithms::read (m = "async") or read_sync (m = "sync") is called with a
\* stream over the bytes and makes its Reader
StartRead(m) ==
    /\ copy.pc = "idle"
    /\ results[m] = NoResult
    /\ kind' = m
    /\ inner' = [data |-> inner.data, pos |-> 0]
    /\ digests' = Algorithms_reader(algorithms)
    /\ out' = <<>>
    /\ sizes' = <<>>
    /\ last' = NoCall
    /\ snap' = NoSnap
    /\ copy' = [pc |-> "copying", n |-> 0]
    /\ UNCHANGED <<algorithms, results, parseVars, repoVars>>

\* what a read of the stream can produce in a copy loop: as InnerOutcomes,
\* but a stream with bytes left does not report the end of the stream
CopyOutcomes(m, stream, len) ==
    {o \in InnerOutcomes(m, stream, len) :
        (o.res = "ok" /\ o.n = 0) => stream.pos = Len(stream.data)}

\* a copy loop that reads again after every error
RetriedAlways(m, o) == TRUE

\* whether the copy loop reads again after the error o: std::io::copy does
\* after ErrorKind::Interrupted, futures::io::copy returns every error
Retried(m, o) == m = "sync" /\ o.err = "Interrupted"

\* one turn of the loop of std::io::copy or futures::io::copy into the sink
CopyStep ==
    /\ copy.pc = "copying"
    /\ \E o \in CopyOutcomes(kind, inner, CopyBufLen) :
         LET buf == [i \in 1..CopyBufLen |-> 0]
             b == IF o.res = "ok" THEN BufAfter(inner, buf, o) ELSE buf
             ds == IF kind = "sync" THEN Reader_read(digests, b, o)
                   ELSE Reader_poll_read(digests, b, o)
         IN
         /\ ReadCall(IF kind = "sync" THEN "read" ELSE "poll_read", ds, buf, o)
         /\ CASE o.res = "ok" /\ o.n > 0 ->
                  /\ copy' = [copy EXCEPT !.n = copy.n + o.n]
                  /\ UNCHANGED results
              [] o.res = "ok" /\ o.n = 0 ->
                  /\ copy' = [copy EXCEPT !.pc = "copied"]
                  /\ UNCHANGED results
              [] o.res = "pending" -> UNCHANGED <<copy, results>>
              [] o.res = "err" /\ Retried(kind, o) ->
                  UNCHANGED <<copy, results>>
              [] OTHER ->
                  /\ copy' = NoCopy
                  /\ results' = [results EXCEPT ![kind] =
                        [res |-> "err", n |-> 0, set |-> EmptyContentDigest,
                         err |-> o.err]]
    /\ UNCHANGED <<algorithms, kind, snap, parseVars, repoVars>>

\* Ok((n, r.digests()))
Return ==
    /\ copy.pc = "copied"
    /\ LET d == Reader_digests(digests) IN
       /\ digests' = d.digests
       /\ results' = [results EXCEPT ![kind] =
             [res |-> "ok", n |-> copy.n, set |-> d.set, err |-> ""]]
    /\ copy' = NoCopy
    /\ UNCHANGED <<algorithms, kind, inner, out, sizes, last, snap,
                   parseVars, repoVars>>

NextCopy ==
    \/ \E m \in Modes : StartRead(m)
    \/ CopyStep
    \/ Return

InitCopy == NoInput /\ InitRepoVars /\ InitCopyVars

SpecCopy == InitCopy /\ [][NextCopy]_vars

(***************************************************************************)
(* SpecParse: Namespace::from_str over all short strings                   *)
(***************************************************************************)
InitParseVars ==
    /\ input \in StringsUpTo(MaxLen) \cup StringsOver(NameAlphabet, MaxNameLen)
    /\ parsed = NotParsed
    /\ named = NotNamed

ParseNamespace ==
    /\ ~parsed.done
    /\ parsed' = [done |-> TRUE, res |-> from_str(input)]
    /\ UNCHANGED <<input, named, repoVars, digestVars>>

\* "<input>".parse::<Name>()
ParseName ==
    /\ ~named.done
    /\ named' = [done |-> TRUE, via |-> "from_str", res |-> Name_from_str(input)]
    /\ UNCHANGED <<input, parsed, repoVars, digestVars>>

\* Name::try_from(<input> as String)
TryFromName ==
    /\ ~named.done
    /\ named' = [done |-> TRUE, via |-> "try_from", res |-> Name_try_from(input)]
    /\ UNCHANGED <<input, parsed, repoVars, digestVars>>

InitParse == InitParseVars /\ InitRepoVars /\ NoReader

NextParse ==
    \/ ParseNamespace
    \/ ParseName
    \/ TryFromName

SpecParse == InitParse /\ [][NextParse]_vars

(***************************************************************************)
(* SpecRoute: one request, over many paths                                 *)
(***************************************************************************)
AliceMyrepo == <<"a", "l", "i", "c", "e", "/", "m", "y", "r", "e", "p", "o">>

OwnerGroupName == <<"o", "/", "g", "-", "1", "/", "n">>

\* what follows the leading slash of a path, before the tail
Prefixes == StringsOver(PathAlphabet, MaxNsLen) \cup {AliceMyrepo, OwnerGroupName}

\* how a path ends: no marker, both components with and without more path,
\* other component tokens, a second marker
Tails ==
    { <<>>,
      <<"/", "_", "t", "r", "e", "e">>,
      <<"/", "_", "t", "a", "g">>,
      <<"/", "_", "t", "r", "e", "e", "/", "x">>,
      <<"/", "_", "t", "a", "g", "/", "v", "1">>,
      <<"/", "_", "t", "a", "g", "/">>,
      <<"/", "_", "t", "r", "e", "e", "s", "/", "x">>,
      <<"/", "_", "T", "a", "g", "/", "x">>,
      <<"/", "_", "/", "x">>,
      <<"/", "_", "t", "a", "g", "/", "x", "/", "_", "y">>,
      <<"/", "_", "t", "r", "e", "e", "/", "a", "/", "b">> }

\* the paths of SpecRoute; a path is never empty and starts with a slash
RoutePaths ==
    {<<"/">> \o pre \o tail : pre \in Prefixes, tail \in Tails}
        \cup (Tails \ {<<>>})

InitRoute == NoInput /\ InitRepoVars /\ NoReader

NextRoute ==
    \/ \E p \in RoutePaths : Call(1, p)
    \/ Route(1)
    \/ Serve(1)
    \/ Extract(1)

SpecRoute == InitRoute /\ [][NextRoute]_vars

(***************************************************************************)
(* SpecRepo: several requests, handled concurrently                        *)
(***************************************************************************)
RacePaths ==
    { <<"/", "a", "/", "b", "/", "_", "t", "r", "e", "e", "/", "x">>,
      <<"/", "a", "/", "b", "/", "_", "t", "a", "g", "/", "x">>,
      <<"/", "a", "/", "c", "/", "_", "t", "r", "e", "e">>,
      <<"/", "a", "/", "b", "/", "_", "t", "o", "p">>,
      <<"/", "a", "/", "/", "_", "t", "a", "g">>,
      <<"/", "a", "/", "b">> }

InitRepo == NoInput /\ InitRepoVars /\ NoReader

NextRepo ==
    \/ \E r \in Requests, p \in RacePaths : Call(r, p)
    \/ \E r \in Requests : Route(r)
    \/ \E r \in Requests : Serve(r)

SpecRepo == InitRepo /\ [][NextRepo]_vars

(***************************************************************************)
(* Properties of Namespace parsing                                         *)
(***************************************************************************)
RECURSIVE Join(_)
Join(tokens) ==
    IF Len(tokens) = 0 THEN <<>>
    ELSE IF Len(tokens) = 1 THEN tokens[1]
    ELSE tokens[1] \o <<"/">> \o Join(Tail(tokens))

AlnumOrHyphen(c) == c \in Digits \cup Lower \cup Upper \cup {"-"}

\* s is two or more non-empty tokens of letters, digits and hyphens,
\* separated by single slashes
IsNamespaceString(s) ==
    /\ Len(s) > 0
    /\ s[1] # "/" /\ s[Len(s)] # "/"
    /\ \E i \in 1..Len(s) : s[i] = "/"
    /\ \A i \in 1..Len(s) : s[i] = "/" \/ AlnumOrHyphen(s[i])
    /\ \A i \in 1..(Len(s) - 1) : ~(s[i] = "/" /\ s[i + 1] = "/")

NoSlash(t) == \A i \in 1..Len(t) : t[i] # "/"

\* C7: from_str succeeds exactly on the strings made of two or more
\* non-empty tokens of ASCII letters, digits and hyphens separated by `/`;
\* on success owner, groups and name are those tokens in order, so joining
\* them with `/` gives back the input.
C7_FromStrExact ==
    parsed.done =>
        LET r == parsed.res
            toks == <<r.ns.owner>> \o r.ns.groups \o <<r.ns.name>>
        IN
        /\ r.ok <=> IsNamespaceString(input)
        /\ r.ok => /\ Join(toks) = input
                   /\ \A i \in 1..Len(toks) : NoSlash(toks[i]) /\ Len(toks[i]) > 0

\* a string with a group token has been parsed successfully
C7_Witness ==
    parsed.done /\ parsed.res.ok /\ Len(parsed.res.ns.groups) = 1

(***************************************************************************)
(* Properties of the dispatcher                                            *)
(***************************************************************************)
Routed(r) == pc[r] \in {"forwarded", "done"}

Answered(r) == pc[r] \in {"forwarded", "done", "rejected"}

SamePair(r, q) == fwd[r].svc = fwd[q].svc /\ fwd[r].ns = fwd[q].ns

\* C1: two requests that race for the same (Namespace, component) pair,
\* neither received after the other was answered, are forwarded with the
\* same store instance.
C1_RaceSameStore ==
    \A r, q \in Requests :
        (/\ r # q /\ Routed(r) /\ Routed(q) /\ SamePair(r, q)
         /\ q \notin prior[r] /\ r \notin prior[q])
            => fwd[r].store = fwd[q].store

\* C2: a request received after another request for the same (Namespace,
\* component) pair was answered is forwarded with the store instance that
\* the earlier request was forwarded with.
C2_LaterSameStore ==
    \A r, q \in Requests :
        (Routed(r) /\ q \in prior[r] /\ Routed(q) /\ SamePair(r, q))
            => fwd[r].store = fwd[q].store

MarkerTreeX == <<"/", "_", "t", "r", "e", "e", "/", "x">>

\* C3: the request for `/_tree/x` is answered with 400 bad-request, the
\* failure of namespace parsing, and not with 404.
C3_MarkerOnlyIsBadRequest ==
    \A r \in Requests :
        (Answered(r) /\ path[r] = MarkerTreeX)
            => pc[r] = "rejected" /\ resp[r].status = BAD_REQUEST

\* the path p is `/` + a namespace string of n characters + `/_` + tok,
\* followed by nothing or by a slash
IsStorePath(p, n, tok) ==
    /\ n >= 1
    /\ Len(p) >= n + 3 + Len(tok)
    /\ p[1] = "/"
    /\ IsNamespaceString(SubSeq(p, 2, n + 1))
    /\ SubSeq(p, n + 2, n + 3) = <<"/", "_">>
    /\ SubSeq(p, n + 4, n + 3 + Len(tok)) = tok
    /\ (Len(p) > n + 3 + Len(tok) => p[n + 4 + Len(tok)] = "/")

ServiceOf(tok) == IF tok = <<"t", "r", "e", "e">> THEN "tree" ELSE "tag"

AlicePath == <<"/">> \o AliceMyrepo \o <<"/", "_", "t", "a", "g", "/", "v", "1">>

\* C4: a request for `/<namespace>/_<component>/<rest>` with a valid
\* namespace and the component tree or tag is forwarded to the service the
\* component names, with the parsed Namespace as the key of the store and
\* with the path `/_` + <rest>; `/alice/myrepo/_tag/v1` goes to the tag
\* service with the path `/_v1` and the Namespace alice, [], myrepo.
C4_ForwardedToComponent ==
    \A r \in Requests :
        Answered(r) =>
            /\ \A n \in 1..Len(path[r]) :
                 \A tok \in {<<"t", "r", "e", "e">>, <<"t", "a", "g">>} :
                    IsStorePath(path[r], n, tok) =>
                        LET ns == fwd[r].ns
                            toks == <<ns.owner>> \o ns.groups \o <<ns.name>>
                            m == IF ServiceOf(tok) = "tree" THEN hTrees[r]
                                 ELSE hTags[r]
                        IN
                        /\ Routed(r)
                        /\ fwd[r].svc = ServiceOf(tok)
                        /\ Join(toks) = SubSeq(path[r], 2, n + 1)
                        /\ \A i \in 1..Len(toks) : NoSlash(toks[i])
                        /\ uri[r] = <<"/", "_">> \o
                              SubSeq(path[r], n + 5 + Len(tok), Len(path[r]))
                        /\ pc[r] = "forwarded" =>
                              ns \in DOMAIN m /\ m[ns] = fwd[r].store
            /\ path[r] = AlicePath =>
                 /\ Routed(r)
                 /\ fwd[r].svc = "tag"
                 /\ uri[r] = <<"/", "_", "v", "1">>
                 /\ fwd[r].ns = [owner |-> <<"a", "l", "i", "c", "e">>,
                                 groups |-> <<>>,
                                 name |-> <<"m", "y", "r", "e", "p", "o">>]

\* `/alice/myrepo/_tag/v1` has been forwarded
C4_Witness == pc[1] = "forwarded" /\ path[1] = AlicePath

ContainsMarker(p) ==
    \E i \in 1..(Len(p) - 1) : p[i] = "/" /\ p[i + 1] = "_"

\* C10: a request whose path contains no `/_` is answered with 404
\* not-found; it is not answered with a parse error and not forwarded.
C10_NoMarkerIsNotFound ==
    \A r \in Requests :
        (Answered(r) /\ ~ContainsMarker(path[r])) =>
            /\ pc[r] = "rejected"
            /\ resp[r].status = NOT_FOUND
            /\ fwd[r].svc = "none"
            /\ nextStore = 0

\* a path without marker that is not a namespace has been rejected
C10_Witness ==
    /\ pc[1] = "rejected"
    /\ ~ContainsMarker(path[1])
    /\ ~IsNamespaceString(Tail(path[1]))
    /\ Len(path[1]) > 1

(***************************************************************************)
(* Properties of the digests                                               *)
(***************************************************************************)
RECURSIVE Sum(_)
Sum(seq) == IF seq = <<>> THEN 0 ELSE Head(seq) + Sum(Tail(seq))

\* C5: after any sequence of read calls every hasher has absorbed exactly
\* the bytes the successful calls returned to the caller, in order; a failed
\* or pending call feeds nothing; the caller gets the byte count and the
\* bytes the wrapped stream produced.
C5_HashersAbsorbReturnedBytes ==
    /\ \A i \in 1..Len(digests) : digests[i].state = out
    /\ out = SubSeq(inner.data, 1, inner.pos)
    /\ Len(out) = Sum(sizes)
    /\ (last.op \in {"read", "poll_read"} /\ last.res = "ok") =>
          /\ sizes # <<>> /\ last.n = sizes[Len(sizes)]
          /\ SubSeq(last.buf, 1, last.n) = SubSeq(out, Len(out) - last.n + 1, Len(out))

\* a call has failed or is pending after a read shorter than its buffer and
\* another read, with several hashers
C5_Witness ==
    /\ last.res \in {"err", "pending"}
    /\ Len(digests) >= 2
    /\ Len(sizes) >= 2
    /\ \E i \in 1..Len(sizes) : sizes[i] = 1
    /\ Len(out) >= 2

\* C6: a call of digests() leaves the hashers, the wrapped stream and the
\* bytes returned so far as they are, whatever calls came before it, and
\* its result is the digest, per algorithm, of the bytes read so far.
C6_DigestsIsSnapshot ==
    [][last'.op = "digests" =>
        /\ digests' = digests
        /\ inner' = inner
        /\ out' = out
        /\ snap'.taken
        /\ DOMAIN snap'.set = algorithms
        /\ \A a \in algorithms : snap'.set[a] = finalize(a, out)]_vars

\* digests() has been called in the middle of the stream
C6_Witness ==
    /\ last.op = "digests"
    /\ Len(out) >= 1
    /\ inner.pos < Len(inner.data)
    /\ Len(sizes) >= 2

\* the ContentDigest of a Reader that got the whole of data in one read
SingleRead(algs, data) ==
    Reader_digests(
        Reader_read(Algorithms_reader(algs), data,
                    [res |-> "ok", n |-> Len(data), err |-> ""])).set

\* C8: once the whole byte sequence has passed through the Reader, in
\* whatever reads, digests() returns the ContentDigest that a single read
\* of the whole sequence gives.
C8_ChunkingIndependent ==
    (last.op = "digests" /\ inner.pos = Len(inner.data))
        => snap.set = SingleRead(algorithms, inner.data)

\* the whole sequence has passed in three or more reads, one of no bytes
C8_Witness ==
    /\ last.op = "digests"
    /\ inner.pos = Len(inner.data)
    /\ Len(inner.data) >= 2
    /\ Len(sizes) >= 3
    /\ \E i \in 1..Len(sizes) : sizes[i] = 0

\* C9: over the same bytes, Algorithms::read and read_sync that return
\* return the length of the sequence as the byte count and the digest set
\* of the whole sequence, the same for both.
C9_ReadAndReadSyncAgree ==
    /\ \A m \in Modes :
         results[m].res = "ok" =>
            /\ results[m].n = Len(inner.data)
            /\ DOMAIN results[m].set = algorithms
            /\ \A a \in algorithms :
                 results[m].set[a] = finalize(a, inner.data)
    /\ (results["sync"].res = "ok" /\ results["async"].res = "ok") =>
          /\ results["sync"].n = results["async"].n
          /\ results["sync"].set = results["async"].set

\* both operations have returned for a sequence longer than the buffer
C9_Witness ==
    /\ results["sync"].res = "ok"
    /\ results["async"].res = "ok"
    /\ Len(inner.data) > CopyBufLen

(***************************************************************************)
(* More properties of the dispatcher                                       *)
(***************************************************************************)
\* the position of the first `/_` of p, 0 if there is none
FirstMarker(p) ==
    IF ContainsMarker(p)
    THEN CHOOSE i \in 1..(Len(p) - 1) :
            /\ p[i] = "/" /\ p[i + 1] = "_"
            /\ \A j \in 1..(i - 1) : ~(p[j] = "/" /\ p[j + 1] = "_")
    ELSE 0

\* the text between the leading slash of p and its first marker
BeforeMarker(p) == SubSeq(p, 2, FirstMarker(p) - 1)

\* the text between the first marker of p and the next slash
ComponentToken(p) ==
    LET a == SubSeq(p, FirstMarker(p) + 2, Len(p)) IN
    IF \E i \in 1..Len(a) : a[i] = "/"
    THEN SubSeq(a, 1, (CHOOSE i \in 1..Len(a) :
                         a[i] = "/" /\ \A j \in 1..(i - 1) : a[j] # "/") - 1)
    ELSE a

\* C11: a request with a valid namespace whose component token is not
\* exactly `tree` or `tag` is answered with 404 not-found and is not
\* forwarded to a store service.
C11_UnknownComponentIsNotFound ==
    \A r \in Requests :
        (/\ Answered(r)
         /\ ContainsMarker(path[r])
         /\ IsNamespaceString(BeforeMarker(path[r]))
         /\ ComponentToken(path[r]) \notin {<<"t", "r", "e", "e">>, <<"t", "a", "g">>})
            => /\ pc[r] = "rejected"
               /\ resp[r].status = NOT_FOUND
               /\ fwd[r].svc = "none"
               /\ nextStore = 0

\* a request for the component `trees` of a valid namespace was rejected
C11_Witness ==
    /\ pc[1] = "rejected"
    /\ ContainsMarker(path[1])
    /\ IsNamespaceString(BeforeMarker(path[1]))
    /\ ComponentToken(path[1]) = <<"t", "r", "e", "e", "s">>

ParseErrors ==
    {"Repository owner must be specified", "Repository name must be specified",
     "Invalid namespace"}

\* C16: the checks run in the order marker, namespace, component: a request
\* whose path has a `/_` marker preceded by an invalid namespace is answered
\* with 400 and the reason of the parse failure, whatever its component
\* token; 404 for a path with a marker is returned only when the namespace
\* before the marker is valid.
C16_NamespaceCheckedBeforeComponent ==
    \A r \in Requests :
        (Answered(r) /\ ContainsMarker(path[r])) =>
            /\ ~IsNamespaceString(BeforeMarker(path[r])) =>
                  /\ pc[r] = "rejected"
                  /\ resp[r].status = BAD_REQUEST
                  /\ resp[r].reason \in ParseErrors
            /\ resp[r].status = NOT_FOUND =>
                  IsNamespaceString(BeforeMarker(path[r]))

\* C17: two requests are forwarded with the same store instance only if
\* they have the same Namespace and the same component; requests for
\* different namespaces, or for tree and tag of one namespace, never share
\* a store instance.
C17_StoresIsolated ==
    \A r, q \in Requests :
        (r # q /\ Routed(r) /\ Routed(q) /\ fwd[r].store = fwd[q].store)
            => SamePair(r, q)

\* requests for tree and tag of one namespace have been forwarded
C17_Witness ==
    /\ Routed(1) /\ Routed(2)
    /\ fwd[1].ns = fwd[2].ns
    /\ fwd[1].svc = "tree" /\ fwd[2].svc = "tag"

\* the map m2 is m1, but for the entry of key, which may be new
SameButFor(m1, m2, key) ==
    /\ DOMAIN m1 \subseteq DOMAIN m2
    /\ DOMAIN m2 \subseteq DOMAIN m1 \cup {key}
    /\ \A k \in DOMAIN m1 : k # key => m2[k] = m1[k]

\* C18: a request that is rejected (no marker, invalid namespace, unknown
\* component) creates no store instance and leaves the tags and trees maps
\* as they are; a forwarded tree request changes at most the trees entry of
\* its Namespace, a forwarded tag request at most the tags entry of its
\* Namespace.
C18_RoutingFrame ==
    [][\A r \in Requests :
        /\ (pc[r] = "called" /\ pc'[r] = "rejected") =>
              /\ nextStore' = nextStore
              /\ tags' = tags /\ trees' = trees
              /\ hTags' = hTags /\ hTrees' = hTrees
        /\ (pc[r] = "called" /\ pc'[r] = "forwarded") =>
              /\ tags' = tags /\ trees' = trees
              /\ \A q \in Requests \ {r} :
                    hTags'[q] = hTags[q] /\ hTrees'[q] = hTrees[q]
              /\ fwd'[r].svc = "tree" =>
                    /\ hTags'[r] = hTags[r]
                    /\ SameButFor(hTrees[r], hTrees'[r], fwd'[r].ns)
              /\ fwd'[r].svc = "tag" =>
                    /\ hTrees'[r] = hTrees[r]
                    /\ SameButFor(hTags[r], hTags'[r], fwd'[r].ns)]_vars

\* one request has been rejected for its namespace and one forwarded
C18_Witness ==
    /\ pc[1] = "rejected" /\ resp[1].status = BAD_REQUEST
    /\ pc[2] = "forwarded" /\ fwd[2].created

(***************************************************************************)
(* More properties of the digests                                          *)
(***************************************************************************)
\* a read of the wrapped stream fails in this step of a copy loop
StreamFails == copy.pc = "copying" /\ last' # last /\ last'.res = "err"

Failure(e) == [res |-> "err", n |-> 0, set |-> EmptyContentDigest, err |-> e]

C19_OneEntryPerAlgorithm ==
    /\ {digests[i].alg : i \in 1..Len(digests)} = algorithms
    /\ Len(digests) = Cardinality(algorithms)
    /\ snap.taken =>
          /\ DOMAIN snap.set = algorithms
          /\ \A a \in algorithms : snap.set[a].size = OutputSize(a)
          /\ algorithms = {"sha-224", "sha-256", "sha-384", "sha-512"} =>
                Cardinality(DOMAIN snap.set) = 4

\* digests() was called on a Reader of the default set before any read
C19_Witness ==
    /\ snap.taken
    /\ last.op = "digests"
    /\ sizes = <<>>
    /\ algorithms = DefaultAlgorithms

(***************************************************************************)
(* More properties of parsing                                              *)
(***************************************************************************)
\* the namespace strings among the inputs, each with its parse
ParsedNamespaceStrings ==
    {[str |-> t, ns |-> from_str(t).ns] :
        t \in {u \in StringsUpTo(MaxLen) \cup StringsOver(NameAlphabet, MaxNameLen) :
                  IsNamespaceString(u)}}

\* C13: two different strings that both parse give unequal Namespace
\* values, also when they differ in grouping only.
C13_ParseInjective ==
    (parsed.done /\ parsed.res.ok) =>
        \A t \in ParsedNamespaceStrings :
            t.str # input => t.ns # parsed.res.ns

\* a string with a group has been parsed, and another string has the same
\* owner and the same name
C13_Witness ==
    /\ parsed.done /\ parsed.res.ok
    /\ Len(parsed.res.ns.groups) = 1
    /\ \E t \in ParsedNamespaceStrings :
         /\ t.str # input
         /\ t.ns.owner = parsed.res.ns.owner
         /\ t.ns.name = parsed.res.ns.name

\* C15: parsing a Name, by from_str or try_from, succeeds exactly when the
\* string is not empty and all its characters are ASCII letters, digits or
\* hyphens; on success the Name holds the string unchanged.
C15_NameExact ==
    named.done =>
        /\ named.res.ok <=>
              (Len(input) > 0 /\ \A i \in 1..Len(input) : AlnumOrHyphen(input[i]))
        /\ named.res.ok => named.res.name = input
        /\ (\E i \in 1..Len(input) : input[i] \in {"/", " ", ".", "%", NonAscii})
              => ~named.res.ok

\* try_from has accepted a name with a hyphen
C15_Witness ==
    /\ named.done /\ named.via = "try_from" /\ named.res.ok
    /\ \E i \in 1..Len(input) : input[i] = "-"
    /\ Len(input) >= 2

(***************************************************************************)
(* Properties of the extractor                                             *)
(***************************************************************************)
NamespaceTokens(ns) == <<ns.owner>> \o ns.groups \o <<ns.name>>

\* the Namespace ns is the parse of the text s
IsParseOf(ns, s) ==
    /\ IsNamespaceString(s)
    /\ Join(NamespaceTokens(ns)) = s
    /\ \A i \in 1..Len(NamespaceTokens(ns)) : NoSlash(NamespaceTokens(ns)[i])

\* C14 as claimed: when from_request succeeds, the path has a `/_` marker,
\* the path of the request is `/_` + what came after the first marker and
\* the Namespace is the parse of the text between the leading slash and
\* that marker.
C14_PathRewrittenAfterMarker ==
    \A r \in Requests :
        (extracted[r].done /\ extracted[r].ok) =>
            /\ ContainsMarker(path[r])
            /\ uri[r] = <<"/", "_">> \o
                  SubSeq(path[r], FirstMarker(path[r]) + 2, Len(path[r]))
            /\ IsParseOf(extracted[r].ns, BeforeMarker(path[r]))

\* C14 as amended: when from_request succeeds on a path with a `/_` marker,
\* the path becomes `/_` + what came after the first marker and the
\* Namespace is the parse of the text between the leading slash and that
\* marker; when it succeeds on a path without marker, the Namespace is the
\* parse of the whole path after its leading slash and the path becomes `/_`.
C14_PathRewritten ==
    \A r \in Requests :
        (extracted[r].done /\ extracted[r].ok) =>
            IF ContainsMarker(path[r])
            THEN /\ uri[r] = <<"/", "_">> \o
                       SubSeq(path[r], FirstMarker(path[r]) + 2, Len(path[r]))
                 /\ IsParseOf(extracted[r].ns, BeforeMarker(path[r]))
            ELSE /\ uri[r] = <<"/", "_">>
                 /\ IsParseOf(extracted[r].ns, Tail(path[r]))

\* the extractor has succeeded on a path with two markers
C14_Witness ==
    /\ extracted[1].done /\ extracted[1].ok
    /\ ContainsMarker(path[1])
    /\ ContainsMarker(Tail(uri[1]))

====
